---- MODULE Spec2Model ----
(***************************************************************************)
(* Janitor API: the hosts resource (api/hosts-api.js, kept here as         *)
(* src/.eslintrc-browser.js lines 16-415) and the user resource            *)
(* (api/user-api.js, kept here as src/unnamed/part_000).                    *)
(*                                                                         *)
(* Every HTTP handler is one action; a handler that waits for the request  *)
(* body or for a callback of a library is continued by a second action.    *)
(* The variable `last` records the most recent step of a handler: the      *)
(* request it served, the library calls it made and the response it sent   *)
(* (status 0: no response sent in this step).                              *)
(***************************************************************************)
EXTENDS Integers, Sequences, FiniteSets, Bags, TLC

VARIABLES
    hosts,          \* db.get('hosts'): hostname -> host record
    nextSecret,     \* source of fresh OAuth2 client secrets
    users,          \* the users of the store: their profile and configurations
    served,         \* PATCH requests served so far
    inflight,       \* requests waiting for their body or for a callback
    last            \* the most recent handler step (request, calls, response)

vars == <<hosts, nextSecret, users, served, inflight, last>>
hostVars == <<hosts, nextSecret>>
userVars == <<users, served>>

----------------------------------------------------------------------------
(* Values                                                                  *)

NoUser == "<no user>"            \* request.user is undefined
None == "<none>"                 \* null / undefined result of a lookup

\* The hostnames of the examples, and the empty hostname the handlers reject.
Hostnames == {"host.name", "unauthorized.host.name"}
TargetHostnames == Hostnames \cup {""}

Users == {"admin", "alice"}
Admins == {"admin"}

\* Host properties, as in the examples: { port: '2376' }, { port: '2345' }.
Props == {"2376", "2345"}

\* Request bodies of POST /hosts/:hostname: a JSON object, or text that
\* JSON.parse rejects.
Malformed == "<not json>"
PostBodies == Props \cup {Malformed}

MaxSecret == 2       \* fresh secrets available in one behaviour
MaxInflight == 2     \* requests that may wait at the same time
MaxOps == 2          \* operations in one JSON Patch
MaxRequests == 2     \* PATCH requests served in one behaviour of SpecUser

Err(msg) == [error |-> msg]
Reply(status, body, calls) == [status |-> status, body |-> body, calls |-> calls]
NoReply(calls) == [status |-> 0, body |-> [pending |-> TRUE], calls |-> calls]

----------------------------------------------------------------------------
(* lib/users, lib/hosts: not part of src/, modelled from the specification *)

\* users.isAdmin(user): false for a request without user.
isAdmin(user) == user \in Admins

\* The OAuth2 client id a host gets when it is created; it is never reset.
ClientIdOf(hostname) == IF hostname = "host.name" THEN 1234 ELSE 5678

ClientIds == {ClientIdOf(h) : h \in Hostnames}

\* hosts.get(hostname)
hosts_get(db, hostname) == IF hostname \in DOMAIN db THEN db[hostname] ELSE None

hosts_exists(db, hostname) == hostname \in DOMAIN db

\* hosts.authenticate(request): the hostname whose OAuth2 client id and
\* secret are the request's client_id and client_secret, or null.
hosts_authenticate(db, req) ==
    IF req.client_id = 0 \/ req.client_secret = 0
    THEN None
    ELSE LET match == {h \in DOMAIN db :
                          /\ db[h].oauth2client.id = req.client_id
                          /\ db[h].oauth2client.secret = req.client_secret}
         IN  IF match = {} THEN None ELSE CHOOSE h \in match : TRUE

Put(db, hostname, host) ==
    [h \in DOMAIN db \cup {hostname} |-> IF h = hostname THEN host ELSE db[h]]

\* hosts.create(hostname, properties, callback): a new record with fresh
\* credentials; an error when the host exists or the store fails (ok = FALSE).
hosts_create(db, hostname, properties, secret, ok) ==
    IF hostname \in DOMAIN db \/ ~ok
    THEN [error |-> TRUE, db |-> db]
    ELSE [error |-> FALSE,
          db |-> Put(db, hostname,
                     [properties |-> properties,
                      oauth2client |-> [id |-> ClientIdOf(hostname),
                                        secret |-> secret]])]

\* hosts.update(hostname, properties, callback)
hosts_update(db, hostname, properties, ok) ==
    IF hostname \notin DOMAIN db \/ ~ok
    THEN [error |-> TRUE, db |-> db]
    ELSE [error |-> FALSE,
          db |-> Put(db, hostname, [db[hostname] EXCEPT !.properties = properties])]

\* hosts.resetOAuth2ClientSecret(host, callback)
hosts_resetOAuth2ClientSecret(db, hostname, secret, ok) ==
    IF hostname \notin DOMAIN db \/ ~ok
    THEN [error |-> TRUE, db |-> db]
    ELSE [error |-> FALSE,
          db |-> Put(db, hostname,
                     [db[hostname] EXCEPT !.oauth2client.secret = secret])]

----------------------------------------------------------------------------
(* Requests of the hosts resource: the target hostname, the session's user *)
(* and the OAuth2 client credentials among the query parameters.           *)

Credentials ==
    {[client_id |-> 0, client_secret |-> 0]}
        \cup [client_id : ClientIds, client_secret : 1..MaxSecret]

Identities == [user : Users \cup {NoUser}, cred : Credentials]

\* The identities of the examples: no credentials, or those beforeTests gives
\* host.name (client_id '1234').
Visitors ==
    [user : Users \cup {NoUser},
     cred : {[client_id |-> 0, client_secret |-> 0],
             [client_id |-> ClientIdOf("host.name"), client_secret |-> 1]}]

Request(hostname, who) ==
    [hostname |-> hostname, user |-> who.user,
     client_id |-> who.cred.client_id, client_secret |-> who.cred.client_secret]

----------------------------------------------------------------------------
(* Handlers: the synchronous part of each handler as a function of the     *)
(* store and the request                                                   *)

\* hostsAPI.get that also lists the hosts for a valid host credential.
hostsAPI_get_HostAllowed(db, req) ==
    IF ~isAdmin(req.user) /\ hosts_authenticate(db, req) = None
    THEN Reply(403, Err("Unauthorized"), {})
    ELSE Reply(200, [list |-> DOMAIN db], {"db.get"})

\* GET /hosts
hostsAPI_get(db, req) ==
    IF ~isAdmin(req.user)
    THEN Reply(403, Err("Unauthorized"), {})
    ELSE Reply(200, [list |-> DOMAIN db], {"db.get"})

\* hostAPI.get that answers a host with its whole record.
hostAPI_get_WholeRecord(db, req) ==
    IF req.hostname = ""
    THEN Reply(400, Err("Invalid hostname"), {})
    ELSE LET authenticatedHostname == hosts_authenticate(db, req) IN
         IF /\ authenticatedHostname # None
            /\ authenticatedHostname = req.hostname
            /\ hosts_exists(db, req.hostname)
         THEN Reply(200, db[req.hostname], {"hosts.get"})
         ELSE IF /\ req.user # NoUser
                 /\ isAdmin(req.user)
                 /\ hosts_exists(db, req.hostname)
              THEN Reply(200, [properties |-> db[req.hostname].properties],
                         {"hosts.get"})
              ELSE Reply(404, Err("Host not found"), {})

\* GET /hosts/:hostname
hostAPI_get(db, req) ==
    IF req.hostname = ""
    THEN Reply(400, Err("Invalid hostname"), {})
    ELSE LET authenticatedHostname == hosts_authenticate(db, req) IN
         IF /\ authenticatedHostname # None
            /\ authenticatedHostname = req.hostname
            /\ hosts_exists(db, req.hostname)
         THEN Reply(200, [properties |-> db[req.hostname].properties], {"hosts.get"})
         ELSE IF /\ req.user # NoUser
                 /\ isAdmin(req.user)
                 /\ hosts_exists(db, req.hostname)
              THEN Reply(200, [properties |-> db[req.hostname].properties],
                         {"hosts.get"})
              ELSE Reply(404, Err("Host not found"), {})

\* hostAPI.post that lets a host's own credentials create the host.
hostAPI_post_HostCreates(db, req) ==
    IF req.hostname = ""
    THEN "invalid"
    ELSE LET authenticatedHostname == hosts_authenticate(db, req) IN
         IF authenticatedHostname # None /\ authenticatedHostname = req.hostname
         THEN "create"
         ELSE IF req.user # NoUser /\ isAdmin(req.user)
              THEN IF hosts_exists(db, req.hostname) THEN "update" ELSE "create"
              ELSE "unauthorized"

\* hostAPI.post that takes any authenticated host for the target host.
hostAPI_post_AnyHost(db, req) ==
    IF req.hostname = ""
    THEN "invalid"
    ELSE LET authenticatedHostname == hosts_authenticate(db, req) IN
         IF authenticatedHostname # None
         THEN "update"
         ELSE IF req.user # NoUser /\ isAdmin(req.user)
              THEN IF hosts_exists(db, req.hostname) THEN "update" ELSE "create"
              ELSE "unauthorized"

\* hostAPI.post that creates the host without looking for it first.
hostAPI_post_AlwaysCreate(db, req) ==
    IF req.hostname = ""
    THEN "invalid"
    ELSE LET authenticatedHostname == hosts_authenticate(db, req) IN
         IF authenticatedHostname # None /\ authenticatedHostname = req.hostname
         THEN "update"
         ELSE IF req.user # NoUser /\ isAdmin(req.user)
              THEN "create"
              ELSE "unauthorized"

\* POST /hosts/:hostname, up to the call of updateHost() or createHost().
hostAPI_post(db, req) ==
    IF req.hostname = ""
    THEN "invalid"
    ELSE LET authenticatedHostname == hosts_authenticate(db, req) IN
         IF authenticatedHostname # None /\ authenticatedHostname = req.hostname
         THEN "update"
         ELSE IF req.user # NoUser /\ isAdmin(req.user)
              THEN IF hosts_exists(db, req.hostname) THEN "update" ELSE "create"
              ELSE "unauthorized"

\* createHost(), from the callback of getHostProperties on.
createHost(db, hostname, properties, secret, ok) ==
    LET r == hosts_create(db, hostname, properties, secret, ok) IN
    [db |-> r.db,
     reply |-> IF r.error
               THEN Reply(500, Err("Could not create host"), {"hosts.create"})
               ELSE Reply(201, [properties |-> r.db[hostname].properties],
                          {"hosts.create"})]

\* updateHost(), from the callback of getHostProperties on.
updateHost(db, hostname, properties, ok) ==
    LET r == hosts_update(db, hostname, properties, ok) IN
    [db |-> r.db,
     reply |-> IF r.error
               THEN Reply(500, Err("Could not update host"), {"hosts.update"})
               ELSE Reply(200, [properties |-> r.db[hostname].properties],
                          {"hosts.update"})]

\* GET /hosts/:hostname/credentials
hostAPI_get_credentials(db, req) ==
    IF ~isAdmin(req.user)
    THEN Reply(404, Err("Host not found"), {})
    ELSE IF ~hosts_exists(db, req.hostname)
         THEN Reply(404, Err("Host not found"), {"hosts.get"})
         ELSE Reply(200, db[req.hostname].oauth2client, {"hosts.get"})

\* The handler without its administrator check.
hostAPI_delete_credentials_NoAdminCheck(db, req) ==
    IF ~hosts_exists(db, req.hostname)
    THEN Reply(404, Err("Host not found"), {"hosts.get"})
    ELSE NoReply({"hosts.get", "hosts.resetOAuth2ClientSecret"})

\* The handler answering with the credentials it finds, without a reset.
hostAPI_delete_credentials_NoReset(db, req) ==
    IF ~isAdmin(req.user)
    THEN Reply(404, Err("Host not found"), {})
    ELSE IF ~hosts_exists(db, req.hostname)
         THEN Reply(404, Err("Host not found"), {"hosts.get"})
         ELSE Reply(200, db[req.hostname].oauth2client, {"hosts.get"})

\* DELETE /hosts/:hostname/credentials, up to hosts.resetOAuth2ClientSecret.
hostAPI_delete_credentials(db, req) ==
    IF ~isAdmin(req.user)
    THEN Reply(404, Err("Host not found"), {})
    ELSE IF ~hosts_exists(db, req.hostname)
         THEN Reply(404, Err("Host not found"), {"hosts.get"})
         ELSE NoReply({"hosts.get", "hosts.resetOAuth2ClientSecret"})

\* GET /hosts/:hostname/version, up to docker.version.
hostAPI_get_version(db, req) ==
    IF ~isAdmin(req.user)
    THEN Reply(404, Err("Host not found"), {})
    ELSE IF ~hosts_exists(db, req.hostname)
         THEN Reply(404, Err("Host not found"), {"hosts.get"})
         ELSE NoReply({"hosts.get", "docker.version"})

----------------------------------------------------------------------------
(* GET /hosts/:hostname/:container/:port                                   *)

\* The capability tokens of a delegation scope.
ScopeTokens == {"user", "user:ports", "user:email"}

NoScope == [present |-> FALSE, hostname |-> "", user |-> NoUser, scopes |-> {}]

\* request.oauth2scope: undefined, or { hostname, user, scopes }.
OAuth2Scopes ==
    {NoScope} \cup [present : {TRUE}, hostname : Hostnames, user : {"alice"},
                    scopes : SUBSET ScopeTokens]

HexDigits == {"0", "1", "2", "3", "4", "5", "6", "7", "8", "9",
              "a", "b", "c", "d", "e", "f"}

\* The container of the example, 'abcdef0123456789', as its characters.
ExampleContainer ==
    <<"a", "b", "c", "d", "e", "f", "0", "1", "2", "3", "4", "5", "6", "7", "8", "9">>

ContainerIds ==
    {ExampleContainer,
     ExampleContainer \o <<"a">>,                         \* 17 characters
     SubSeq(ExampleContainer, 1, 15),                     \* 15 characters
     [ExampleContainer EXCEPT ![16] = "g"]}               \* not hexadecimal

PortNames == {"8080", "9090"}

\* lib/machines, modelled from the specification: the machines of the users.
Machines ==
    {[user |-> "alice", hostname |-> "host.name", container |-> ExampleContainer,
      ports |-> [p \in {"8080"} |-> [port |-> 42000, proxy |-> "https"]]]}

\* machines.getMachineByContainer(user, hostname, container)
machines_getMachineByContainer(user, hostname, container) ==
    LET found == {m \in Machines : /\ m.user = user
                                   /\ m.hostname = hostname
                                   /\ m.container = container}
    IN  IF found = {} THEN [exists |-> FALSE] ELSE
        [exists |-> TRUE, machine |-> CHOOSE m \in found : TRUE]

\* The same with the length test alone.
InvalidContainerId_LengthOnly(container) ==
    Len(container) < 16

\* container.length < 16 || !/^[0-9a-f]+$/.test(container)
InvalidContainerId(container) ==
    \/ Len(container) < 16
    \/ ~(/\ Len(container) >= 1
         /\ \A i \in 1..Len(container) : container[i] \in HexDigits)

PortReply(as, status, body, calls) ==
    [as |-> as, status |-> status, body |-> body, calls |-> calls]

\* The same without the comparison of the scope's hostname.
EffectiveUser_AnyHostname(req) ==
    IF /\ req.user = NoUser
       /\ req.oauth2scope.present
       /\ ("user" \in req.oauth2scope.scopes \/ "user:ports" \in req.oauth2scope.scopes)
    THEN req.oauth2scope.user
    ELSE req.user

\* The same for a handler that lets only administrators keep their session.
EffectiveUser_AdminsOnly(req) ==
    IF /\ req.user = NoUser
       /\ req.oauth2scope.present
       /\ req.oauth2scope.hostname = req.hostname
       /\ ("user" \in req.oauth2scope.scopes \/ "user:ports" \in req.oauth2scope.scopes)
    THEN req.oauth2scope.user
    ELSE IF isAdmin(req.user) THEN req.user ELSE NoUser

\* The user the handler goes on with: request.user, or the user of the
\* delegation scope.
EffectiveUser(req) ==
    IF /\ req.user = NoUser
       /\ req.oauth2scope.present
       /\ req.oauth2scope.hostname = req.hostname
       /\ ("user" \in req.oauth2scope.scopes \/ "user:ports" \in req.oauth2scope.scopes)
    THEN req.oauth2scope.user
    ELSE req.user

hostAPI_get_container_port(req) ==
    LET user == EffectiveUser(req) IN
    IF user = NoUser
    THEN PortReply(user, 403, Err("Unauthorized"), {})
    ELSE IF InvalidContainerId(req.container)
    THEN PortReply(user, 400, Err("Invalid container ID"), {})
    ELSE LET found == machines_getMachineByContainer(user, req.hostname, req.container)
             lookup == {"machines.getMachineByContainer"}
         IN  IF ~found.exists
             THEN PortReply(user, 404, Err("Container not found"), lookup)
             ELSE IF req.port \in DOMAIN found.machine.ports
                  THEN PortReply(user, 200, found.machine.ports[req.port], lookup)
                  ELSE PortReply(user, 404, Err("Port not found"), lookup)

PortRequests ==
    [hostname : Hostnames, user : Users \cup {NoUser}, oauth2scope : OAuth2Scopes,
     credentials : BOOLEAN,     \* the credentials of host.name among the query
     container : ContainerIds, port : PortNames]

GetContainerPort(req) ==
    LET reply == hostAPI_get_container_port(req) IN
    /\ last' = [route |-> "GET /hosts/:hostname/:container/:port",
                hostname |-> req.hostname, user |-> req.user,
                oauth2scope |-> req.oauth2scope, credentials |-> req.credentials,
                container |-> req.container, port |-> req.port,
                as |-> reply.as, status |-> reply.status, body |-> reply.body,
                calls |-> reply.calls]
    /\ UNCHANGED <<hosts, nextSecret, inflight>>

----------------------------------------------------------------------------
(* Actions of the hosts resource                                           *)

Waiting == BagCardinality(inflight)
One(p) == SetToBag({p})

\* How hostAPI.post authorizes the request: by the host's own credentials,
\* by an administrator's session, or not at all.
Via(db, req) ==
    LET authenticatedHostname == hosts_authenticate(db, req) IN
    IF authenticatedHostname # None /\ authenticatedHostname = req.hostname
    THEN "host"
    ELSE IF req.user # NoUser /\ isAdmin(req.user) THEN "admin" ELSE "none"

\* What `last` keeps of a handler step.
Seen(route, req, db, submitted, reply) ==
    [route |-> route, hostname |-> req.hostname, user |-> req.user,
     authenticated |-> hosts_authenticate(db, req),
     via |-> Via(db, req),
     existed |-> hosts_exists(db, req.hostname),
     before |-> hosts_get(db, req.hostname),
     submitted |-> submitted,
     status |-> reply.status, body |-> reply.body, calls |-> reply.calls]

\* The same for a handler that does not call hosts.authenticate.
SeenUser(route, req, db, reply) ==
    [route |-> route, hostname |-> req.hostname, user |-> req.user,
     credentials |-> (req.client_id # 0),
     existed |-> hosts_exists(db, req.hostname),
     before |-> hosts_get(db, req.hostname),
     status |-> reply.status, body |-> reply.body, calls |-> reply.calls]

\* The same for the continuation of a waiting request p.
SeenLater(route, p, db, submitted, reply) ==
    [route |-> route, hostname |-> p.hostname, kind |-> p.kind,
     via |-> p.via,
     existed |-> (p.kind # "create"),
     present |-> hosts_exists(db, p.hostname),
     before |-> hosts_get(db, p.hostname),
     submitted |-> submitted,
     status |-> reply.status, body |-> reply.body, calls |-> reply.calls]

\* A waiting request: what its continuation closes over.
Wait(kind, req, db) ==
    [kind |-> kind, hostname |-> req.hostname, via |-> Via(db, req)]

ListHosts(who) ==
    LET req == Request("", who) IN
    /\ last' = SeenUser("GET /hosts", req, hosts, hostsAPI_get(hosts, req))
    /\ UNCHANGED <<hosts, nextSecret, inflight>>

GetHost(hostname, who) ==
    LET req == Request(hostname, who) IN
    /\ last' = Seen("GET /hosts/:hostname", req, hosts, None, hostAPI_get(hosts, req))
    /\ UNCHANGED <<hosts, nextSecret, inflight>>

\* POST /hosts/:hostname with a JSON body: getHostProperties waits for the
\* 'end' of the request body.
PostHostJson(hostname, who) ==
    LET req == Request(hostname, who)
        decision == hostAPI_post(hosts, req)
        route == "POST /hosts/:hostname"
    IN
    CASE decision = "invalid" ->
           /\ last' = Seen(route, req, hosts, None,
                           Reply(400, Err("Invalid hostname"), {}))
           /\ UNCHANGED <<hosts, nextSecret, inflight>>
      [] decision = "unauthorized" ->
           /\ last' = Seen(route, req, hosts, None,
                           Reply(403, Err("Unauthorized"), {}))
           /\ UNCHANGED <<hosts, nextSecret, inflight>>
      [] decision \in {"create", "update"} ->
           /\ Waiting < MaxInflight
           /\ inflight' = inflight (+) One(Wait(decision, req, hosts))
           /\ last' = Seen(route, req, hosts, None, NoReply({}))
           /\ UNCHANGED <<hosts, nextSecret>>

\* POST /hosts/:hostname without JSON body: getHostProperties calls back at
\* once with request.query.
PostHostQuery(hostname, who, query, ok) ==
    LET req == Request(hostname, who)
        decision == hostAPI_post(hosts, req)
        route == "POST /hosts/:hostname"
    IN
    CASE decision = "invalid" ->
           /\ last' = Seen(route, req, hosts, None,
                           Reply(400, Err("Invalid hostname"), {}))
           /\ UNCHANGED <<hosts, nextSecret, inflight>>
      [] decision = "unauthorized" ->
           /\ last' = Seen(route, req, hosts, None,
                           Reply(403, Err("Unauthorized"), {}))
           /\ UNCHANGED <<hosts, nextSecret, inflight>>
      [] decision = "update" ->
           LET r == updateHost(hosts, hostname, query, ok) IN
           /\ hosts' = r.db
           /\ last' = Seen(route, req, hosts, query, r.reply)
           /\ UNCHANGED <<nextSecret, inflight>>
      [] decision = "create" ->
           LET r == createHost(hosts, hostname, query, nextSecret, ok) IN
           /\ r.reply.status = 201 => nextSecret <= MaxSecret
           /\ hosts' = r.db
           /\ nextSecret' = IF r.reply.status = 201 THEN nextSecret + 1 ELSE nextSecret
           /\ last' = Seen(route, req, hosts, query, r.reply)
           /\ UNCHANGED inflight

\* request.on('end') of getHostProperties
PostHostEnd(p, body, ok) ==
    LET route == "POST /hosts/:hostname end" IN
    /\ BagIn(p, inflight)
    /\ p.kind \in {"create", "update"}
    /\ inflight' = inflight (-) One(p)
    /\ IF body = Malformed
       THEN /\ last' = SeenLater(route, p, hosts, None,
                                 Reply(400, Err("Problems parsing JSON"), {}))
            /\ UNCHANGED <<hosts, nextSecret>>
       ELSE IF p.kind = "update"
       THEN LET r == updateHost(hosts, p.hostname, body, ok) IN
            /\ hosts' = r.db
            /\ last' = SeenLater(route, p, hosts, body, r.reply)
            /\ UNCHANGED nextSecret
       ELSE LET r == createHost(hosts, p.hostname, body, nextSecret, ok) IN
            /\ r.reply.status = 201 => nextSecret <= MaxSecret
            /\ hosts' = r.db
            /\ nextSecret' = IF r.reply.status = 201 THEN nextSecret + 1 ELSE nextSecret
            /\ last' = SeenLater(route, p, hosts, body, r.reply)

GetCredentials(hostname, who) ==
    LET req == Request(hostname, who) IN
    /\ last' = SeenUser("GET /hosts/:hostname/credentials", req, hosts,
                    hostAPI_get_credentials(hosts, req))
    /\ UNCHANGED <<hosts, nextSecret, inflight>>

DeleteCredentials(hostname, who) ==
    LET req == Request(hostname, who)
        reply == hostAPI_delete_credentials(hosts, req)
    IN
    /\ IF reply.status = 0
       THEN /\ Waiting < MaxInflight
            /\ inflight' = inflight (+) One(Wait("reset", req, hosts))
       ELSE UNCHANGED inflight
    /\ last' = SeenUser("DELETE /hosts/:hostname/credentials", req, hosts, reply)
    /\ UNCHANGED <<hosts, nextSecret>>

\* the callback of hosts.resetOAuth2ClientSecret
ResetDone(p, ok) ==
    LET r == hosts_resetOAuth2ClientSecret(hosts, p.hostname, nextSecret, ok) IN
    /\ BagIn(p, inflight)
    /\ p.kind = "reset"
    /\ ~r.error => nextSecret <= MaxSecret
    /\ inflight' = inflight (-) One(p)
    /\ hosts' = r.db
    /\ nextSecret' = IF r.error THEN nextSecret ELSE nextSecret + 1
    /\ last' = SeenLater("DELETE /hosts/:hostname/credentials done", p, hosts, None,
                         IF r.error
                         THEN Reply(500, Err("Could not reset host credentials"), {})
                         ELSE Reply(200, r.db[p.hostname].oauth2client, {}))

GetVersion(hostname, who) ==
    LET req == Request(hostname, who)
        reply == hostAPI_get_version(hosts, req)
    IN
    /\ IF reply.status = 0
       THEN /\ Waiting < MaxInflight
            /\ inflight' = inflight (+) One(Wait("version", req, hosts))
       ELSE UNCHANGED inflight
    /\ last' = SeenUser("GET /hosts/:hostname/version", req, hosts, reply)
    /\ UNCHANGED <<hosts, nextSecret>>

\* the callback of docker.version
VersionDone(p, ok) ==
    /\ BagIn(p, inflight)
    /\ p.kind = "version"
    /\ inflight' = inflight (-) One(p)
    /\ last' = SeenLater("GET /hosts/:hostname/version done", p, hosts, None,
                         IF ok
                         THEN Reply(200, [docker |-> "version"], {})
                         ELSE Reply(404, Err("Host unreachable"), {"log"}))
    /\ UNCHANGED <<hosts, nextSecret>>

----------------------------------------------------------------------------
(* JSON documents and JSON Patch.  A mapping (user.profile or               *)
(* user.configurations) is a function from its keys to its values; a path   *)
(* is the sequence of its segments, path.split('/'): '/.gitconfig' is       *)
(* <<"", ".gitconfig">> and '.gitconfig' is <<".gitconfig">>.               *)

Undef == "<undefined>"       \* a key that holds undefined
Null == "<null>"
NoPath == <<>>               \* an operation without path

Slash(key) == <<"", key>>

\* configurations.allowed (lib/configurations, not part of src/)
Allowed == {".gitconfig", ".vimrc"}

\* No path of PatchPaths leads into a string value.
PatchPaths == {Slash(".gitconfig"), <<".gitconfig">>, Slash("evil"), <<"", "etc", "passwd">>}
PatchFroms == {Slash(".gitconfig")}
PatchValues == {"v"}

PatchOps ==
    [op : {"add", "replace", "test"}, path : PatchPaths, from : {NoPath},
     value : PatchValues]
      \cup [op : {"remove"}, path : PatchPaths, from : {NoPath}, value : {Undef}]
      \cup [op : {"move", "copy"}, path : PatchPaths, from : PatchFroms, value : {Undef}]
      \cup {[op |-> "add", path |-> NoPath, from |-> NoPath, value |-> "v"]}

RECURSIVE SeqsUpTo(_, _)
SeqsUpTo(S, n) ==
    IF n = 0 THEN {<<>>}
    ELSE SeqsUpTo(S, n - 1)
           \cup {Append(q, x) : q \in {r \in SeqsUpTo(S, n - 1) : Len(r) = n - 1}, x \in S}

\* The request bodies: a JSON array of operations, JSON that is no array
\* (null, an object), and text that is no JSON.
PatchBodies ==
    [kind : {"array"}, ops : SeqsUpTo(PatchOps, MaxOps)]
      \cup [kind : {"null", "object", "text"}, ops : {<<>>}]

\* path.replace(/^\//, '')
StripSlash(path) == IF Len(path) >= 2 /\ path[1] = "" THEN Tail(path) ELSE path

\* configurations.allowed.includes(file)
allowed_includes(file) == Len(file) = 1 /\ file[1] \in Allowed

\* fast-json-patch, applyOperation: (operation.path || '').split('/')
Keys(path) == IF path = NoPath THEN <<"">> ELSE path

Set(doc, key, value) ==
    [k \in DOMAIN doc \cup {key} |-> IF k = key THEN value ELSE doc[k]]
Delete(doc, key) == [k \in DOMAIN doc \ {key} |-> doc[k]]
IsString(value) == value \notin {Undef, Null}

\* The walk of applyOperation along the keys (t = 1 skips keys[0]): the
\* object and the key the operation ends at.  A path of one segment ends at
\* the key undefined of the document; a walk through an absent, undefined
\* or null value throws a TypeError; a walk into a string ends at the string.
Locate(doc, keys) ==
    IF Len(keys) <= 2
    THEN [at |-> "document", key |-> IF Len(keys) = 1 THEN "undefined" ELSE keys[2]]
    ELSE IF Len(keys) = 3 /\ keys[2] \in DOMAIN doc /\ IsString(doc[keys[2]])
         THEN [at |-> "string", key |-> keys[3]]
         ELSE [at |-> "TypeError", key |-> ""]

Done(doc) == [doc |-> doc, threw |-> FALSE]
Throw(doc) == [doc |-> doc, threw |-> TRUE]

\* obj[key], as objOps._get reads it
ValueAt(doc, loc) ==
    IF loc.at = "document" /\ loc.key \in DOMAIN doc THEN doc[loc.key] ELSE Undef

\* obj[key] = value.  On a string the outcome depends on the mode the
\* library runs in (a TypeError in strict mode, nothing otherwise): it is
\* left undefined here.
Write(doc, loc, value) ==
    CASE loc.at = "document" -> Done(Set(doc, loc.key, value))
      [] loc.at = "TypeError" -> Throw(doc)

\* _deepClone
Clone(value) == IF value = Undef THEN Null ELSE value

\* jsonpatch.applyOperation(document, operation), without validation
applyOperation(doc, o) ==
    LET loc == Locate(doc, Keys(o.path)) IN
    CASE o.op \in {"add", "replace"} -> Write(doc, loc, o.value)
      [] o.op = "remove" ->
           IF loc.at = "TypeError" THEN Throw(doc)
           ELSE IF loc.at = "document" THEN Done(Delete(doc, loc.key)) ELSE Done(doc)
      [] o.op = "test" ->
           IF loc.at = "document" /\ loc.key \in DOMAIN doc /\ doc[loc.key] = o.value
           THEN Done(doc)
           ELSE Throw(doc)
      [] o.op = "move" ->
           LET src == Locate(doc, Keys(o.from)) IN
           IF loc.at = "TypeError" \/ src.at = "TypeError" THEN Throw(doc)
           ELSE LET removed == IF src.at = "document" THEN Delete(doc, src.key) ELSE doc
                IN  Write(removed, Locate(removed, Keys(o.path)), ValueAt(doc, src))
      [] o.op = "copy" ->
           LET src == Locate(doc, Keys(o.from)) IN
           IF src.at = "TypeError" THEN Throw(doc)
           ELSE Write(doc, loc, Clone(ValueAt(doc, src)))

\* jsonpatch.applyPatch(document, patch): the operations in order, in place,
\* up to the first one that throws.
RECURSIVE applyPatch(_, _)
applyPatch(doc, ops) ==
    IF ops = <<>> THEN Done(doc)
    ELSE LET r == applyOperation(doc, Head(ops)) IN
         IF r.threw THEN r ELSE applyPatch(r.doc, Tail(ops))

----------------------------------------------------------------------------
(* The user resource                                                        *)

ParseError == Err("Problems parsing JSON")
Forbidden(file) == [error |-> "Updating <file> is forbidden", file |-> file]

PatchReply(doc, status, body, saved, threw) ==
    [doc |-> doc, status |-> status, body |-> body, saved |-> saved, threw |-> threw]

\* operations.map(operation => operation.path.replace(/^\//, '')) throws for
\* JSON that is no array and for an operation without path.
MapThrows(body) ==
    \/ body.kind # "array"
    \/ \E i \in 1..Len(body.ops) : body.ops[i].path = NoPath

changedFiles(ops) == [i \in 1..Len(ops) |-> StripSlash(ops[i].path)]

\* The files of changedFiles the whitelist does not hold, by position.
Disallowed_FirstOnly(files) ==
    {i \in 1..Len(files) : i = 1 /\ ~allowed_includes(files[i])}

Disallowed(files) == {i \in 1..Len(files) : ~allowed_includes(files[i])}
Least(S) == CHOOSE i \in S : \A j \in S : i <= j

\* request.on('end') of PATCH /user/configurations
configurationsAPI_patch(configurations, body) ==
    IF body.kind = "text" \/ MapThrows(body)
    THEN PatchReply(configurations, 400, ParseError, FALSE, FALSE)
    ELSE LET files == changedFiles(body.ops) IN
         IF Disallowed(files) # {}
         THEN PatchReply(configurations, 400, Forbidden(files[Least(Disallowed(files))]),
                         FALSE, FALSE)
         ELSE LET r == applyPatch(configurations, body.ops) IN
              IF r.threw
              THEN PatchReply(r.doc, 0, [pending |-> TRUE], FALSE, TRUE)
              ELSE PatchReply(r.doc, 200, [mapping |-> r.doc], TRUE, FALSE)

\* request.on('end') of PATCH /user
userAPI_patch(profile, body) ==
    CASE body.kind = "text" -> PatchReply(profile, 400, ParseError, FALSE, FALSE)
      [] body.kind = "null" ->
           \* applyPatch reads patch.length of null
           PatchReply(profile, 0, [pending |-> TRUE], FALSE, TRUE)
      [] body.kind = "object" ->
           \* no patch.length: no operation is applied
           PatchReply(profile, 200, [mapping |-> profile], TRUE, FALSE)
      [] body.kind = "array" ->
           LET r == applyPatch(profile, body.ops) IN
           IF r.threw
           THEN PatchReply(r.doc, 0, [pending |-> TRUE], FALSE, TRUE)
           ELSE PatchReply(r.doc, 200, [mapping |-> r.doc], TRUE, FALSE)

\* GET /user
userAPI_get(store, user) ==
    IF user = NoUser
    THEN Reply(403, Err("Unauthorized"), {})
    ELSE Reply(200, [mapping |-> store[user].profile], {})

\* GET /user/configurations
configurationsAPI_get(store, user) ==
    IF user = NoUser
    THEN Reply(403, Err("Unauthorized"), {})
    ELSE Reply(200, [mapping |-> store[user].configurations], {})

SeenGet(route, user, reply) ==
    [route |-> route, user |-> user, status |-> reply.status, body |-> reply.body,
     calls |-> reply.calls]

GetUser(user) ==
    /\ last' = SeenGet("GET /user", user, userAPI_get(users, user))
    /\ UNCHANGED <<hostVars, userVars, inflight>>

GetConfigurations(user) ==
    /\ last' = SeenGet("GET /user/configurations", user,
                       configurationsAPI_get(users, user))
    /\ UNCHANGED <<hostVars, userVars, inflight>>

\* The handler of a PATCH, up to request.on('end', ...): `json` is the
\* request's own buffer, empty at first.
PatchStart(route, user) ==
    /\ IF user = NoUser
       THEN /\ last' = SeenGet(route, user, Reply(403, Err("Unauthorized"), {}))
            /\ UNCHANGED inflight
       ELSE /\ Waiting < MaxInflight
            /\ inflight' = inflight (+) One([kind |-> route, user |-> user, json |-> <<>>])
            /\ last' = SeenGet(route, user, NoReply({}))
    /\ UNCHANGED <<hostVars, userVars>>

PatchUser(user) == PatchStart("PATCH /user", user)

PatchConfigurations(user) == PatchStart("PATCH /user/configurations", user)

\* The paths of a batch, by position.
PathsOf(body) == [i \in 1..Len(body.ops) |-> body.ops[i].path]

\* The top-level key of a path: its first segment after the leading '/'.
TopLevelKey(path) == StripSlash(path)[1]

\* The operations of a batch whose top-level key is not whitelisted.
OffendingKeys(paths) ==
    {i \in 1..Len(paths) : paths[i] # NoPath /\ TopLevelKey(paths[i]) \notin Allowed}

\* The operations of a batch whose path, without its leading '/', is not an
\* entry of the whitelist.
OffendingPaths(paths) ==
    {i \in 1..Len(paths) : StripSlash(paths[i]) \notin {<<file>> : file \in Allowed}}

\* What `last` keeps of the 'end' of a PATCH: the answer, whether db.save
\* was called, whether applyPatch threw, whether the mapping changed,
\* whether every operation of the batch has a path, and the first key and
\* the first path of the batch that the whitelist does not hold.
SeenPatch(route, user, before, body, reply) ==
    LET paths == PathsOf(body) IN
    [route |-> route, user |-> user, status |-> reply.status, body |-> reply.body,
     calls |-> IF reply.saved THEN {"db.save"} ELSE {},
     threw |-> reply.threw,
     changed |-> (reply.doc # before),
     readable |-> ~MapThrows(body),
     offendingKey |-> IF OffendingKeys(paths) = {} THEN None
                      ELSE TopLevelKey(paths[Least(OffendingKeys(paths))]),
     offendingPath |-> IF OffendingPaths(paths) = {} THEN NoPath
                       ELSE StripSlash(paths[Least(OffendingPaths(paths))])]

PatchUserEnd(p, body) ==
    /\ BagIn(p, inflight)
    /\ p.kind = "PATCH /user"
    /\ \E reply \in {userAPI_patch(users[p.user].profile, body)} :
          /\ users' = [users EXCEPT ![p.user].profile = reply.doc]
          /\ last' = SeenPatch("PATCH /user end", p.user, users[p.user].profile,
                               body, reply)
    /\ inflight' = inflight (-) One(p)
    /\ UNCHANGED hostVars

PatchConfigurationsEnd(p, body) ==
    /\ BagIn(p, inflight)
    /\ p.kind = "PATCH /user/configurations"
    /\ \E reply \in {configurationsAPI_patch(users[p.user].configurations, body)} :
          /\ users' = [users EXCEPT ![p.user].configurations = reply.doc]
          /\ last' = SeenPatch("PATCH /user/configurations end", p.user,
                               users[p.user].configurations, body, reply)
    /\ inflight' = inflight (-) One(p)
    /\ UNCHANGED hostVars

----------------------------------------------------------------------------
(* A PATCH whose body arrives in chunks.  The text of the body is the      *)
(* sequence of its chunks, each chunk the text of one operation.           *)

MaxChunks == 2         \* chunks of one request body

\* A chunk that is no JSON text.
NotJson == [op |-> "<not json>", path |-> NoPath, from |-> NoPath, value |-> Undef]

StreamChunks ==
    {[op |-> "add", path |-> Slash(".gitconfig"), from |-> NoPath, value |-> "v"],
     [op |-> "remove", path |-> Slash(".gitconfig"), from |-> NoPath, value |-> Undef],
     NotJson}

\* json = String(chunk): the buffer keeps the last chunk only.
Buffered_Overwrite(p, chunk) == [p EXCEPT !.json = <<chunk>>]

\* json += String(chunk)
Buffered(p, chunk) == [p EXCEPT !.json = Append(@, chunk)]

\* JSON.parse(json): the array of the operations, unless a chunk is no JSON.
Parse(json) ==
    IF \E i \in 1..Len(json) : json[i] = NotJson
    THEN [kind |-> "text", ops |-> <<>>]
    ELSE [kind |-> "array", ops |-> json]

\* request.on('data', chunk => ...)
PatchData(p, chunk) ==
    /\ BagIn(p, inflight)
    /\ p.kind \in {"PATCH /user", "PATCH /user/configurations"}
    /\ Len(p.json) < MaxChunks
    /\ inflight' = (inflight (-) One(p)) (+) One(Buffered(p, chunk))
    /\ last' = SeenGet(p.kind \o " data", p.user, NoReply({}))
    /\ UNCHANGED <<hostVars, userVars>>

\* request.on('end', ...) for the body buffered so far
PatchUserStreamEnd(p) == PatchUserEnd(p, Parse(p.json))

PatchConfigurationsStreamEnd(p) == PatchConfigurationsEnd(p, Parse(p.json))

----------------------------------------------------------------------------
(* DELETE /user/configurations/:file                                       *)

\* The default template of a configuration file.
DefaultTemplate == "default"

\* lib/configurations, resetToDefault(user, file, callback): the file of the
\* user gets the content of its default template; a file that is not
\* whitelisted, or a failure, is an error.
configurations_resetToDefault(store, user, file, ok) ==
    IF ~ok \/ file \notin Allowed \/ user \notin DOMAIN store
    THEN [error |-> TRUE, store |-> store]
    ELSE [error |-> FALSE,
          store |-> [store EXCEPT ![user].configurations =
                                      Set(@, file, DefaultTemplate)]]

\* configurationAPI.delete without the test of the user.
configurationAPI_delete_NoGate(user) ==
    NoReply({"configurations.resetToDefault"})

\* The handler of DELETE /user/configurations/:file
configurationAPI_delete(user) ==
    IF user = NoUser
    THEN Reply(403, Err("Unauthorized"), {})
    ELSE NoReply({"configurations.resetToDefault"})

SeenReset(route, user, file, reply) ==
    [route |-> route, user |-> user, file |-> file,
     status |-> reply.status, body |-> reply.body, calls |-> reply.calls]

DeleteConfiguration(user, file) ==
    /\ \E reply \in {configurationAPI_delete(user)} :
          /\ last' = SeenReset("DELETE /user/configurations/:file", user, file, reply)
          /\ IF reply.status = 403
             THEN UNCHANGED inflight
             ELSE /\ Waiting < MaxInflight
                  /\ inflight' = inflight (+)
                        One([kind |-> "DELETE /user/configurations/:file",
                             user |-> user, file |-> file])
    /\ UNCHANGED <<hostVars, userVars>>

\* The callback of configurations.resetToDefault
ResetConfigurationDone(p, ok) ==
    /\ BagIn(p, inflight)
    /\ p.kind = "DELETE /user/configurations/:file"
    /\ inflight' = inflight (-) One(p)
    /\ \E r \in {configurations_resetToDefault(users, p.user, p.file, ok)} :
          /\ users' = r.store
          /\ last' = SeenReset("DELETE /user/configurations/:file done", p.user, p.file,
                               IF r.error
                               THEN Reply(500, Err("Could not reset configuration"),
                                          {"configurations.resetToDefault"})
                               ELSE Reply(204, [empty |-> TRUE],
                                          {"configurations.resetToDefault"}))
    /\ UNCHANGED <<hostVars, served>>

----------------------------------------------------------------------------
(* PUT /user/configurations/:file: the deployment of a configuration file  *)
(* to the containers of a user.                                            *)

MaxContainers == 3     \* live containers of one user
MaxDeployments == 1    \* deployments under way at the same time

Files == {".gitconfig", "evil"}       \* request.query.file

\* The containers a deployment writes to, and what became of each write.
Writes(n) == [1..n -> {"pending", "ok", "failed"}]

\* lib/machines, deployConfigurationInAllContainers(user, file): the user's
\* containers are enumerated; failing that, the promise is rejected.
\* Otherwise one write per container is started, all at once.
deploy_enumerate(p, n, ok) ==
    IF ok
    THEN [settled |-> FALSE,
          next |-> [p EXCEPT !.stage = "writing", !.n = n,
                             !.writes = [c \in 1..n |-> "pending"]]]
    ELSE [settled |-> TRUE, resolved |-> FALSE, count |-> 0]

\* The write to container c ends: a success is counted, a failure is
\* logged and left out of the count.
deploy_written(p, c, ok) ==
    [p EXCEPT !.writes[c] = IF ok THEN "ok" ELSE "failed",
              !.count = IF ok THEN @ + 1 ELSE @]

\* The promise is resolved with the count when no write is pending.
deploy_complete(p) ==
    /\ p.stage = "writing"
    /\ \A c \in 1..p.n : p.writes[c] # "pending"

\* 'Successfully deployed to ' + count + ' container' + (count === 1 ? '' : 's'),
\* with the plural above 1 only.
DeployMessage_PluralAboveOne(count) ==
    [message |-> "Successfully deployed to " \o ToString(count) \o " container"
                   \o (IF count > 1 THEN "s" ELSE "")]

\* 'Successfully deployed to ' + count + ' container' + (count === 1 ? '' : 's')
DeployMessage(count) ==
    [message |-> "Successfully deployed to " \o ToString(count) \o " container"
                   \o (IF count = 1 THEN "" ELSE "s")]

\* The same with .then and .catch exchanged for a count of 0.
configurationAPI_put_settled_ZeroIsError(resolved, count) ==
    IF resolved /\ count > 0
    THEN Reply(200, DeployMessage(count), {"machines.deployConfigurationInAllContainers"})
    ELSE Reply(500, Err("Could not deploy configuration"),
               {"machines.deployConfigurationInAllContainers"})

\* .then(count => ...) and .catch(error => ...) of the deployment
configurationAPI_put_settled(resolved, count) ==
    IF resolved
    THEN Reply(200, DeployMessage(count), {"machines.deployConfigurationInAllContainers"})
    ELSE Reply(500, Err("Could not deploy configuration"),
               {"machines.deployConfigurationInAllContainers"})

\* What `last` keeps of a step of PUT /user/configurations/:file.
SeenDeploy(route, user, file, p, reply) ==
    [route |-> route, user |-> user, file |-> file,
     stage |-> p.stage, n |-> p.n, writes |-> p.writes,
     status |-> reply.status, body |-> reply.body, calls |-> reply.calls]

NoDeployment(user, file) ==
    [kind |-> "PUT /user/configurations/:file", user |-> user, file |-> file,
     stage |-> "enumerating", n |-> 0, writes |-> <<>>, count |-> 0]

\* The deployments under way.
Deploying ==
    BagCardinality([p \in {q \in BagToSet(inflight) :
                              q.kind = "PUT /user/configurations/:file"} |-> inflight[p]])

\* The handler: 403 without user, else the deployment is started.
PutConfiguration(user, file) ==
    /\ IF user = NoUser
       THEN /\ last' = SeenDeploy("PUT /user/configurations/:file", user, file,
                                  [NoDeployment(user, file) EXCEPT !.stage = "none"],
                                  Reply(403, Err("Unauthorized"), {}))
            /\ UNCHANGED inflight
       ELSE /\ Waiting < MaxInflight
            /\ Deploying < MaxDeployments
            /\ inflight' = inflight (+) One(NoDeployment(user, file))
            /\ last' = SeenDeploy("PUT /user/configurations/:file", user, file,
                                  NoDeployment(user, file),
                                  NoReply({"machines.deployConfigurationInAllContainers"}))
    /\ UNCHANGED <<hostVars, userVars>>

\* The containers of the user are enumerated: n of them, or a failure, which
\* rejects the promise and is answered by .catch.
DeployEnumerate(p, n, ok) ==
    /\ BagIn(p, inflight)
    /\ p.kind = "PUT /user/configurations/:file"
    /\ p.stage = "enumerating"
    /\ \E r \in {deploy_enumerate(p, n, ok)} :
          IF r.settled
          THEN /\ inflight' = inflight (-) One(p)
               /\ last' = SeenDeploy("PUT /user/configurations/:file settled",
                                     p.user, p.file, p,
                                     configurationAPI_put_settled(r.resolved, r.count))
          ELSE /\ inflight' = (inflight (-) One(p)) (+) One(r.next)
               /\ last' = SeenDeploy("PUT /user/configurations/:file enumerated",
                                     p.user, p.file, r.next,
                                     NoReply({"machines.deployConfigurationInAllContainers"}))
    /\ UNCHANGED <<hostVars, userVars>>

\* One of the pending writes ends, in any order, with or without success.
DeployWrite(p, c, ok) ==
    /\ BagIn(p, inflight)
    /\ p.kind = "PUT /user/configurations/:file"
    /\ p.stage = "writing"
    /\ c \in 1..p.n
    /\ p.writes[c] = "pending"
    /\ inflight' = (inflight (-) One(p)) (+) One(deploy_written(p, c, ok))
    /\ last' = SeenDeploy("PUT /user/configurations/:file write", p.user, p.file,
                          deploy_written(p, c, ok),
                          NoReply({"machines.deployConfigurationInAllContainers"}))
    /\ UNCHANGED <<hostVars, userVars>>

\* The promise is resolved with the count and .then answers.
DeploySettled(p) ==
    /\ BagIn(p, inflight)
    /\ p.kind = "PUT /user/configurations/:file"
    /\ deploy_complete(p)
    /\ inflight' = inflight (-) One(p)
    /\ last' = SeenDeploy("PUT /user/configurations/:file settled", p.user, p.file, p,
                          configurationAPI_put_settled(TRUE, p.count))
    /\ UNCHANGED <<hostVars, userVars>>

----------------------------------------------------------------------------
(* The state machines.  The initial host store is that of beforeTests:     *)
(* host.name with { port: '2376' }; the initial users are those of the     *)
(* examples of the user resource.                                          *)

InitHosts ==
    [h \in {"host.name"} |->
        [properties |-> "2376", oauth2client |-> [id |-> ClientIdOf(h), secret |-> 1]]]

InitUsers ==
    [u \in Users |->
        [profile |-> [k \in {"name"} |-> "User Name"],
         configurations |-> [k \in {".gitconfig"} |-> ""]]]

NoStep == [route |-> "none", status |-> 0, body |-> [pending |-> TRUE], calls |-> {}]

Init ==
    /\ hosts = InitHosts
    /\ nextSecret = 2
    /\ users = InitUsers
    /\ served = 0
    /\ inflight = EmptyBag
    /\ last = NoStep

Pending == BagToSet(inflight)

\* GET /hosts, GET and POST /hosts/:hostname
Next ==
    \/ \E who \in Identities : ListHosts(who) /\ UNCHANGED userVars
    \/ \E h \in TargetHostnames, who \in Identities :
          GetHost(h, who) /\ UNCHANGED userVars
    \/ \E h \in TargetHostnames, who \in Identities :
          PostHostJson(h, who) /\ UNCHANGED userVars
    \/ \E h \in TargetHostnames, who \in Identities, query \in Props, ok \in BOOLEAN :
          PostHostQuery(h, who, query, ok) /\ UNCHANGED userVars
    \/ \E p \in Pending, body \in PostBodies, ok \in BOOLEAN :
          PostHostEnd(p, body, ok) /\ UNCHANGED userVars

Spec == Init /\ [][Next]_vars

\* The credentials and the version of a host, with the hosts created and
\* updated by POST /hosts/:hostname.
NextCredentials ==
    \/ \E h \in Hostnames, who \in Visitors, query \in Props, ok \in BOOLEAN :
          PostHostQuery(h, who, query, ok) /\ UNCHANGED userVars
    \/ \E h \in Hostnames, who \in Visitors :
          GetCredentials(h, who) /\ UNCHANGED userVars
    \/ \E h \in Hostnames, who \in Visitors :
          DeleteCredentials(h, who) /\ UNCHANGED userVars
    \/ \E p \in Pending, ok \in BOOLEAN : ResetDone(p, ok) /\ UNCHANGED userVars
    \/ \E h \in Hostnames, who \in Visitors : GetVersion(h, who) /\ UNCHANGED userVars
    \/ \E p \in Pending, ok \in BOOLEAN : VersionDone(p, ok) /\ UNCHANGED userVars

SpecCredentials == Init /\ [][NextCredentials]_vars

\* The container ports.
NextPorts == \E req \in PortRequests : GetContainerPort(req) /\ UNCHANGED userVars

SpecPorts == Init /\ [][NextPorts]_vars

\* The sessions of the user resource: alice, or no user.
Sessions == {"alice", NoUser}

\* GET and PATCH /user/configurations
NextConfigurations ==
    \/ \E user \in Sessions : GetConfigurations(user)
    \/ \E user \in Sessions : PatchConfigurations(user)
    \/ \E p \in Pending, body \in PatchBodies :
          PatchConfigurationsEnd(p, body) /\ UNCHANGED served

SpecConfigurations == Init /\ [][NextConfigurations]_vars

\* GET and PATCH of /user and /user/configurations, MaxRequests PATCH
\* requests in a behaviour.
NextUser ==
    \/ \E user \in Sessions : GetUser(user)
    \/ \E user \in Sessions : GetConfigurations(user)
    \/ \E user \in Sessions : PatchUser(user)
    \/ \E user \in Sessions : PatchConfigurations(user)
    \/ \E p \in Pending, body \in PatchBodies :
          /\ served < MaxRequests
          /\ served' = served + 1
          /\ PatchUserEnd(p, body)
    \/ \E p \in Pending, body \in PatchBodies :
          /\ served < MaxRequests
          /\ served' = served + 1
          /\ PatchConfigurationsEnd(p, body)

SpecUser == Init /\ [][NextUser]_vars

\* PATCH requests whose bodies arrive in chunks, interleaved.
NextPatchStream ==
    \/ PatchUser("alice")
    \/ PatchConfigurations("alice")
    \/ \E p \in Pending, chunk \in StreamChunks : PatchData(p, chunk)
    \/ \E p \in Pending : PatchUserStreamEnd(p) /\ UNCHANGED served
    \/ \E p \in Pending : PatchConfigurationsStreamEnd(p) /\ UNCHANGED served

SpecPatchStream == Init /\ [][NextPatchStream]_vars

\* PUT /user/configurations/:file
NextDeploy ==
    \/ \E user \in Sessions, file \in Files : PutConfiguration(user, file)
    \/ \E p \in Pending, n \in 0..MaxContainers, ok \in BOOLEAN : DeployEnumerate(p, n, ok)
    \/ \E p \in Pending, c \in 1..MaxContainers, ok \in BOOLEAN : DeployWrite(p, c, ok)
    \/ \E p \in Pending : DeploySettled(p)

SpecDeploy == Init /\ [][NextDeploy]_vars

\* Who sends the requests: each user of the store, or nobody signed in.
Requesters == Users \cup {NoUser}

\* The six handlers of the user resource, one request at a time.
NextUserSerial ==
    \/ \E user \in Requesters : GetUser(user)
    \/ \E user \in Requesters : GetConfigurations(user)
    \/ \E user \in Requesters : inflight = EmptyBag /\ PatchUser(user)
    \/ \E user \in Requesters : inflight = EmptyBag /\ PatchConfigurations(user)
    \/ \E p \in Pending, chunk \in StreamChunks : PatchData(p, chunk)
    \/ \E p \in Pending : PatchUserStreamEnd(p) /\ UNCHANGED served
    \/ \E p \in Pending : PatchConfigurationsStreamEnd(p) /\ UNCHANGED served
    \/ \E user \in Requesters, file \in Files :
          inflight = EmptyBag /\ DeleteConfiguration(user, file)
    \/ \E p \in Pending, ok \in BOOLEAN : ResetConfigurationDone(p, ok)
    \/ \E user \in Requesters, file \in Files :
          inflight = EmptyBag /\ PutConfiguration(user, file)
    \/ \E p \in Pending, n \in 0..MaxContainers, ok \in BOOLEAN : DeployEnumerate(p, n, ok)
    \/ \E p \in Pending, c \in 1..MaxContainers, ok \in BOOLEAN : DeployWrite(p, c, ok)
    \/ \E p \in Pending : DeploySettled(p)

SpecUserSerial == Init /\ [][NextUserSerial]_vars

----------------------------------------------------------------------------
(* Properties of the hosts resource                                        *)

NotFound == Err("Host not found")
Unauthorized == Err("Unauthorized")
StoreCalls == {"hosts.create", "hosts.update"}

\* The last request carried no session and credentials that authenticate as
\* a host other than its target.
CrossHost ==
    /\ last.user = NoUser
    /\ last.hostname \in Hostnames
    /\ last.authenticated \in Hostnames
    /\ last.authenticated # last.hostname

C1_Response ==
    /\ (last.route = "GET /hosts/:hostname" /\ CrossHost)
          => /\ last.status = 404
             /\ last.body = NotFound
             /\ last.calls \cap StoreCalls = {}
    /\ (last.route = "POST /hosts/:hostname" /\ CrossHost)
          => /\ last.status = 403
             /\ last.body = Unauthorized
             /\ last.calls \cap StoreCalls = {}

C1_Frame ==
    (last'.route \in {"GET /hosts/:hostname", "POST /hosts/:hostname"} /\ CrossHost')
        => (hosts' = hosts /\ inflight' = inflight)

\* C1: a request whose only credential is a host credential that
\* authenticates as A is rejected when it targets another host B: GET
\* /hosts/B answers 404 'Host not found', POST /hosts/B answers 403
\* 'Unauthorized', neither hosts.create nor hosts.update is called and the
\* host store is unchanged.
C1_CrossHostRejected == [](C1_Response) /\ [][C1_Frame]_vars

C1_Witness ==
    /\ last.route = "POST /hosts/:hostname"
    /\ CrossHost
    /\ last.hostname = "unauthorized.host.name"
    /\ last.authenticated = "host.name"
    /\ last.status = 403

AdminPost ==
    /\ last.route \in {"POST /hosts/:hostname", "POST /hosts/:hostname end"}
    /\ last.via = "admin"

\* C6: POST /hosts/h by an administrator.  When h exists the request calls
\* hosts.update and never hosts.create, the record of h keeps its
\* credentials, and the answer to the update is 200 with the submitted
\* properties; when h does not exist the request calls hosts.create and
\* never hosts.update, and the answer to the creation is 201 with the
\* properties of the new host.
C6_AdminPost ==
    AdminPost =>
        /\ last.existed =>
              /\ "hosts.create" \notin last.calls
              /\ last.status # 201
              /\ last.status \in {200, 500} => last.calls = {"hosts.update"}
              /\ last.status = 200 =>
                    /\ last.body = [properties |-> last.submitted]
                    /\ hosts[last.hostname].properties = last.submitted
                    /\ hosts[last.hostname].oauth2client = last.before.oauth2client
        /\ ~last.existed =>
              /\ "hosts.update" \notin last.calls
              /\ last.status # 200
              /\ last.status \in {201, 500} => last.calls = {"hosts.create"}
              /\ last.status = 201 =>
                    /\ last.hostname \in DOMAIN hosts
                    /\ last.body = [properties |-> last.submitted]
                    /\ last.body = [properties |-> hosts[last.hostname].properties]

C6_Witness ==
    /\ AdminPost
    /\ last.existed
    /\ last.status = 200
    /\ last.submitted # last.before.properties
    /\ last.body = [properties |-> last.submitted]

AdminsNoCredentials ==
    {who \in Identities : isAdmin(who.user) /\ who.cred.client_id = 0}

\* The identities whose only credential is one the store accepts for h.
HostIdentities(h) ==
    {who \in Identities :
        who.user = NoUser /\ hosts_authenticate(hosts, Request(h, who)) = h}

\* C10: for every h of the host store, GET /hosts/h with a valid credential
\* of h and GET /hosts/h by an administrator answer the same body, the
\* properties of h; for every h not in the store both answer 404 'Host not
\* found'.
C10_SameBody ==
    \A h \in Hostnames :
        IF h \in DOMAIN hosts
        THEN \A host \in HostIdentities(h), admin \in AdminsNoCredentials :
                /\ hostAPI_get(hosts, Request(h, host)).status = 200
                /\ hostAPI_get(hosts, Request(h, host)).body
                      = hostAPI_get(hosts, Request(h, admin)).body
                /\ hostAPI_get(hosts, Request(h, admin)).body
                      = [properties |-> hosts[h].properties]
        ELSE \A who \in Identities :
                (who.user = NoUser \/ isAdmin(who.user))
                    => /\ hostAPI_get(hosts, Request(h, who)).status = 404
                       /\ hostAPI_get(hosts, Request(h, who)).body = NotFound

C10_Witness ==
    /\ last.route = "GET /hosts/:hostname"
    /\ last.user = NoUser
    /\ last.authenticated = last.hostname
    /\ last.hostname = "unauthorized.host.name"
    /\ last.status = 200
    /\ last.body = [properties |-> hosts[last.hostname].properties]

ExistenceRevealing ==
    {"GET /hosts/:hostname/credentials", "DELETE /hosts/:hostname/credentials",
     "GET /hosts/:hostname/version"}

Without(db, h) == [x \in DOMAIN db \ {h} |-> db[x]]

\* The stores that differ from db at most in whether h exists.
Variants(db, h) ==
    {Without(db, h)}
        \cup {Put(db, h, [properties |-> p,
                          oauth2client |-> [id |-> ClientIdOf(h), secret |-> s]]) :
                 p \in Props, s \in 1..MaxSecret}

C7_Response ==
    (last.route \in ExistenceRevealing /\ ~isAdmin(last.user))
        => /\ last.status = 404
           /\ last.body = NotFound
           /\ last.calls = {}

C7_SameInBothRuns ==
    \A h \in Hostnames, who \in Identities :
        ~isAdmin(who.user) =>
            \A other \in Variants(hosts, h) :
                /\ hostAPI_get_credentials(hosts, Request(h, who))
                      = hostAPI_get_credentials(other, Request(h, who))
                /\ hostAPI_delete_credentials(hosts, Request(h, who))
                      = hostAPI_delete_credentials(other, Request(h, who))
                /\ hostAPI_get_version(hosts, Request(h, who))
                      = hostAPI_get_version(other, Request(h, who))

C7_Frame ==
    (last'.route \in ExistenceRevealing /\ ~isAdmin(last'.user))
        => (hosts' = hosts /\ inflight' = inflight /\ nextSecret' = nextSecret)

\* C7: for a requester that is not an administrator, GET and DELETE
\* /hosts/h/credentials and GET /hosts/h/version answer 404 'Host not found',
\* the same answer whether or not h is in the host store; no credential is
\* read or reset and docker.version is not called.
C7_NoEnumeration == [](C7_Response /\ C7_SameInBothRuns) /\ [][C7_Frame]_vars

C7_Witness ==
    /\ last.route = "DELETE /hosts/:hostname/credentials"
    /\ last.user = "alice"
    /\ last.existed
    /\ last.status = 404
    /\ last.body = NotFound

ResetRoutes ==
    {"DELETE /hosts/:hostname/credentials", "DELETE /hosts/:hostname/credentials done"}

C9_ResetThenGet ==
    (last.route \in ResetRoutes /\ last.status = 200) =>
        LET get == hostAPI_get_credentials(
                       hosts, [hostname |-> last.hostname, user |-> "admin",
                               client_id |-> 0, client_secret |-> 0])
        IN  /\ get.status = 200
            /\ get.body = last.body
            /\ get.body.secret # last.before.oauth2client.secret
            /\ get.body.id = last.before.oauth2client.id

C9_StableId ==
    \A h \in Hostnames :
        h \in DOMAIN hosts =>
            /\ h \in DOMAIN hosts'
            /\ hosts'[h].oauth2client.id = hosts[h].oauth2client.id

\* C9: after a successful DELETE /hosts/h/credentials by an administrator,
\* GET /hosts/h/credentials answers a secret different from the one held
\* before the reset and the same client id; over any sequence of resets
\* and host updates the client id of an existing host never changes.
C9_ResetKeepsId == [](C9_ResetThenGet) /\ [][C9_StableId]_vars

C9_Witness ==
    /\ last.route = "DELETE /hosts/:hostname/credentials done"
    /\ last.status = 200
    /\ last.hostname = "host.name"
    /\ hosts["host.name"].oauth2client.secret # 1
    /\ hosts["host.name"].oauth2client.id = 1234
    /\ hosts["host.name"].properties # "2376"

----------------------------------------------------------------------------
(* Properties of the container ports                                       *)

PortRoute == last.route = "GET /hosts/:hostname/:container/:port"
Lookup == "machines.getMachineByContainer"

\* The delegation scope of the last request is bound to the target hostname
\* and holds 'user' or 'user:ports'.
Delegated ==
    /\ last.oauth2scope.present
    /\ last.oauth2scope.hostname = last.hostname
    /\ last.oauth2scope.scopes \cap {"user", "user:ports"} # {}

\* C2: on GET /hosts/:hostname/:container/:port a request without user
\* session is treated as the user of its delegation scope only if the scope
\* is bound to the target hostname and holds 'user' or 'user:ports'; in
\* every other case without user session the answer is 403 'Unauthorized'
\* and no container is looked up.
C2_ScopeBoundToHost ==
    (PortRoute /\ last.user = NoUser) =>
        IF Delegated
        THEN last.as = last.oauth2scope.user
        ELSE /\ last.as = NoUser
             /\ last.status = 403
             /\ last.body = Unauthorized
             /\ Lookup \notin last.calls

C2_Witness ==
    /\ PortRoute
    /\ last.user = NoUser
    /\ last.oauth2scope.present
    /\ last.oauth2scope.hostname # last.hostname
    /\ "user:ports" \in last.oauth2scope.scopes
    /\ ~InvalidContainerId(last.container)
    /\ last.status = 403

----------------------------------------------------------------------------
(* Properties of the user resource                                          *)

PatchConfigurationsDone == last.route = "PATCH /user/configurations end"
PatchDone == last.route \in {"PATCH /user end", "PATCH /user/configurations end"}
Saved == "db.save" \in last.calls

\* C3, as stated: a PATCH /user/configurations batch with an operation whose
\* top-level key is outside the whitelist leaves the configurations
\* unchanged, does not call db.save, and answers 400 with an error naming
\* the first such key in batch order.
C3_NamesFirstOffendingKey ==
    (PatchConfigurationsDone /\ last.offendingKey # None) =>
        /\ ~last.changed
        /\ ~Saved
        /\ last.status = 400
        /\ last.body = Forbidden(<<last.offendingKey>>)

\* C3, amended: a PATCH /user/configurations batch whose operations all
\* have a path, one of them a path that without its leading '/' is not an
\* entry of the whitelist, leaves the configurations unchanged, does not
\* call db.save, and answers 400 with an error naming that whole path,
\* leading '/' removed, of the first such operation in batch order; a batch
\* with an offending key and an operation without path is left unapplied
\* too and answers 400 'Problems parsing JSON'.
C3_NamesFirstOffendingPath ==
    /\ (PatchConfigurationsDone /\ last.readable /\ last.offendingPath # NoPath) =>
          /\ ~last.changed
          /\ ~Saved
          /\ last.status = 400
          /\ last.body = Forbidden(last.offendingPath)
    /\ (PatchConfigurationsDone /\ ~last.readable /\ last.offendingKey # None) =>
          /\ ~last.changed
          /\ ~Saved
          /\ last.status = 400
          /\ last.body = ParseError

\* A batch whose first offending operation is on /etc/passwd: the answer
\* names etc/passwd, and the configurations are as they were.
C3_Witness ==
    /\ PatchConfigurationsDone
    /\ last.readable
    /\ last.offendingKey = "etc"
    /\ last.offendingPath = <<"etc", "passwd">>
    /\ last.status = 400
    /\ last.body = Forbidden(<<"etc", "passwd">>)
    /\ ~last.changed

\* C4: a PATCH of /user or of /user/configurations in which an operation
\* fails to apply leaves the mapping as it was before the request.
C4_AllOrNothing == (PatchDone /\ last.threw) => ~last.changed

\* C5: every key of every user's configurations belongs to
\* configurations.allowed.
C5_KeysWhitelisted ==
    \A user \in Users : DOMAIN users[user].configurations \subseteq Allowed

----------------------------------------------------------------------------
(* Properties of the container id                                          *)

\* A container id shorter than 16 characters, or with a character that is
\* no lowercase hexadecimal digit.
BadContainer ==
    \/ Len(last.container) < 16
    \/ \E i \in 1..Len(last.container) : last.container[i] \notin HexDigits

\* The last request has a user session or a delegation that covers ports.
AuthorizedForPorts == last.user # NoUser \/ Delegated

\* C11: on GET /hosts/:hostname/:container/:port a container id shorter
\* than 16 characters or with a character outside [0-9a-f] ends an
\* authorized request with 400 'Invalid container ID', and no request with
\* such an id reaches machines.getMachineByContainer; an id of at least 16
\* lowercase hexadecimal characters is never answered with 400.
C11_ContainerValidated ==
    PortRoute =>
        /\ BadContainer =>
              /\ Lookup \notin last.calls
              /\ AuthorizedForPorts =>
                    /\ last.status = 400
                    /\ last.body = Err("Invalid container ID")
        /\ ~BadContainer => last.status # 400

\* An authorized request whose id has 16 characters, the last one 'g'.
C11_Witness ==
    /\ PortRoute
    /\ last.user = "alice"
    /\ Len(last.container) = 16
    /\ last.container[16] = "g"
    /\ last.status = 400
    /\ Lookup \notin last.calls

----------------------------------------------------------------------------
(* Properties of the deployment                                            *)

DeploymentSettled == last.route = "PUT /user/configurations/:file settled"

\* The writes of the settled deployment that succeeded.
Succeeded == {c \in 1..last.n : last.writes[c] = "ok"}

\* C12: a deployment to N containers, whatever the order in which the N
\* writes end and whichever of them fail, answers 200 with the number of
\* writes that succeeded, after every write has ended; failed writes do not
\* make it an error, with N = 0 the count is 0, and 500 'Could not deploy
\* configuration' is the answer only when the containers could not be
\* enumerated.
C12_CountsSuccesses ==
    DeploymentSettled =>
        IF last.stage = "writing"
        THEN /\ \A c \in 1..last.n : last.writes[c] \in {"ok", "failed"}
             /\ last.status = 200
             /\ \E suffix \in {"", "s"} :
                   last.body = [message |-> "Successfully deployed to "
                                              \o ToString(Cardinality(Succeeded))
                                              \o " container" \o suffix]
        ELSE /\ last.stage = "enumerating"
             /\ last.status = 500
             /\ last.body = Err("Could not deploy configuration")

\* Three containers, the write to the second one failed: the count is 2.
C12_Witness ==
    /\ DeploymentSettled
    /\ last.n = 3
    /\ last.writes = <<"ok", "failed", "ok">>
    /\ last.status = 200
    /\ last.body = [message |-> "Successfully deployed to 2 containers"]

\* C13: the message of a successful deployment is 'Successfully deployed to
\* <count> container', followed by 's' exactly when the count is not 1.
C13_Plural ==
    (DeploymentSettled /\ last.status = 200) =>
        LET count == Cardinality(Succeeded) IN
        last.body.message =
            CASE count = 0 -> "Successfully deployed to 0 containers"
              [] count = 1 -> "Successfully deployed to 1 container"
              [] count >= 2 -> "Successfully deployed to " \o ToString(count) \o " containers"

\* One write of two succeeded: the singular.
C13_Witness ==
    /\ DeploymentSettled
    /\ last.status = 200
    /\ last.n = 2
    /\ Cardinality(Succeeded) = 1
    /\ last.body.message = "Successfully deployed to 1 container"

----------------------------------------------------------------------------
(* Properties of the PATCH requests                                        *)

\* C14: a PATCH of /user or of /user/configurations whose body is no
\* well-formed patch (text that is no JSON, JSON that is no array, an
\* operation without path) is answered 400 'Problems parsing JSON', changes
\* nothing in the mapping and does not call db.save.
C14_MalformedRejected ==
    (PatchDone /\ ~last.readable) =>
        /\ last.status = 400
        /\ last.body = ParseError
        /\ ~last.changed
        /\ ~Saved

----------------------------------------------------------------------------
(* Properties of the host list                                             *)

----------------------------------------------------------------------------
(* Properties of the writes to the host store                              *)

PostRoutes == {"POST /hosts/:hostname", "POST /hosts/:hostname end"}

\* The last POST was let in by the credentials of its own target host.
HostPost ==
    /\ last.route \in PostRoutes
    /\ last.via = "host"

\* On the handler's own step `via` is what the request carried.
C16_Identity ==
    (last.route = "POST /hosts/:hostname" /\ last.hostname # "") =>
        /\ last.via = "host" <=> last.authenticated = last.hostname
        /\ last.via = "admin" <=>
              (last.authenticated # last.hostname /\ last.user \in Admins)

C16_HostUpdatesOnly ==
    HostPost =>
        /\ "hosts.create" \notin last.calls
        /\ last.status \in {200, 500} => last.calls = {"hosts.update"}

C16_Frame ==
    /\ hosts' # hosts =>
          /\ last'.route \in PostRoutes
          /\ last'.via \in {"host", "admin"}
    /\ DOMAIN hosts' # DOMAIN hosts =>
          /\ DOMAIN hosts \subseteq DOMAIN hosts'
          /\ last'.route \in PostRoutes
          /\ last'.via = "admin"
          /\ last'.calls = {"hosts.create"}

\* C16: a POST /hosts/h let in by the credentials of h calls hosts.update
\* only, never hosts.create; the set of hostnames of the store grows only
\* by the POST of an administrator, and a request that is neither an
\* administrator's nor carries the valid credentials of its target host
\* leaves the store as it is.
C16_HostNeverCreates ==
    [](C16_Identity /\ C16_HostUpdatesOnly) /\ [][C16_Frame]_vars

\* A host updates its own properties with its credentials and no session.
C16_Witness ==
    /\ HostPost
    /\ last.user = NoUser
    /\ last.hostname = "host.name"
    /\ last.status = 200
    /\ last.calls = {"hosts.update"}
    /\ hosts["host.name"].properties = "2345"

----------------------------------------------------------------------------
(* Properties of concurrent POST requests                                  *)

\* C17: when the POST requests of administrators with JSON bodies
\* interleave, hosts.create is never called for a hostname that the host
\* store holds at the moment of the call.
C17_CreateOnlyAbsent ==
    (/\ last.route = "POST /hosts/:hostname end"
     /\ last.via = "admin"
     /\ "hosts.create" \in last.calls) => ~last.present

----------------------------------------------------------------------------
(* Properties of concurrent PATCH requests                                 *)

PatchEnds == {"PATCH /user end", "PATCH /user/configurations end"}
PatchDatas == {"PATCH /user data", "PATCH /user/configurations data"}

\* The operations of a batch applied one after another.
RECURSIVE OneAfterAnother(_, _)
OneAfterAnother(doc, ops) ==
    IF ops = <<>> THEN doc
    ELSE OneAfterAnother(applyOperation(doc, Head(ops)).doc, Tail(ops))

\* The mapping after the body made of the chunks `json`: that of the batch
\* applied as a whole, or the mapping as it was when the text is no JSON.
AfterBody(doc, json) ==
    IF \E i \in 1..Len(json) : json[i] = NotJson THEN doc ELSE OneAfterAnother(doc, json)

\* The users after the request p has been served with the body `json`.
UsersAfter(p, json) ==
    IF p.kind = "PATCH /user"
    THEN [users EXCEPT ![p.user].profile = AfterBody(@, json)]
    ELSE [users EXCEPT ![p.user].configurations = AfterBody(@, json)]

C18_Step ==
    /\ users' # users => last'.route \in PatchEnds
    /\ last'.route \in PatchDatas =>
          \E p \in BagToSet(inflight), chunk \in StreamChunks :
              /\ p.kind \o " data" = last'.route
              /\ inflight' = (inflight (-) One(p))
                               (+) One([p EXCEPT !.json = Append(p.json, chunk)])
    /\ last'.route \in PatchEnds =>
          \E p \in BagToSet(inflight) :
              /\ p.kind \o " end" = last'.route
              /\ inflight' = inflight (-) One(p)
              /\ users' = UsersAfter(p, p.json)

C18_Response ==
    (last.route \in PatchEnds) =>
        /\ last.status \in {200, 400}
        /\ last.status = 200 =>
              last.body = [mapping |-> IF last.route = "PATCH /user end"
                                       THEN users[last.user].profile
                                       ELSE users[last.user].configurations]

\* C18: concurrent PATCH requests of one user are served batch by batch.
\* Each chunk goes to the buffer of its own request; the mapping changes
\* only at an 'end' event, in one step, to the result of applying the whole
\* batch of that request to the mapping as the earlier 'end' events left
\* it; and the body of each answer is the mapping right after that step.
C18_BatchesSerialized == [](C18_Response) /\ [][C18_Step]_vars

\* A PATCH of the configurations is answered while another one, part of
\* whose body has arrived, still waits for its 'end'.
C18_Witness ==
    /\ last.route = "PATCH /user/configurations end"
    /\ last.status = 200
    /\ last.body = [mapping |-> [k \in {".gitconfig"} |-> "v"]]
    /\ \E p \in BagToSet(inflight) :
          /\ p.kind = "PATCH /user/configurations"
          /\ p.json = <<[op |-> "remove", path |-> Slash(".gitconfig"),
                         from |-> NoPath, value |-> Undef]>>

----------------------------------------------------------------------------
(* Every request is answered                                               *)

\* C19: every request is answered exactly once.  A request that has no
\* answer yet is still waiting for its body; once its 'end' event has been
\* handled it has its answer, also when the operations of a PATCH that
\* parses as JSON cannot be applied.
C19_EveryRequestAnswered ==
    /\ last.route \in PatchEnds => last.status \in {200, 400}
    /\ last.route \in {"GET /user", "GET /user/configurations"} => last.status # 0
    /\ (last.route \in {"PATCH /user", "PATCH /user/configurations"} /\ last.status = 0) =>
          \E p \in BagToSet(inflight) : p.kind = last.route /\ p.user = last.user

----------------------------------------------------------------------------
(* The user resource is for the signed-in user only                        *)

\* The steps in which a handler of the user resource is entered.
UserRoutes ==
    {"GET /user", "PATCH /user", "GET /user/configurations",
     "PATCH /user/configurations", "DELETE /user/configurations/:file",
     "PUT /user/configurations/:file"}

\* The state after a handler of the user resource was entered without user.
Anonymous == last.route \in UserRoutes /\ last.user = NoUser

C20_Refused ==
    Anonymous => /\ last.status = 403
                 /\ last.body = Err("Unauthorized")
                 /\ last.calls = {}

C20_Untouched ==
    /\ Anonymous' => /\ users' = users
                     /\ inflight' = inflight
                     /\ hosts' = hosts
    /\ \A u \in DOMAIN users :
          users'[u] # users[u] => last'.route # "none" /\ last'.user = u
    /\ DOMAIN users' = DOMAIN users

\* C20: each of the six handlers of the user resource, entered without an
\* authenticated user, answers 403 {error: 'Unauthorized'}, calls nothing
\* (no db.save, no reset, no deployment is started) and leaves every user
\* and every waiting request as they were; and whenever the profile or the
\* configurations of a user change, it is in a step of a request of that
\* very user.
C20_OnlyTheSignedInUser == [](C20_Refused) /\ [][C20_Untouched]_vars

\* A reset without user is refused, after the signed-in user has changed a
\* configuration of their own.
C20_Witness ==
    /\ last.route = "DELETE /user/configurations/:file"
    /\ last.user = NoUser
    /\ last.status = 403
    /\ users["alice"] # InitUsers["alice"]
    /\ users["admin"] = InitUsers["admin"]

====
